---- MODULE Spec2Model ----
(***************************************************************************)
(* The in-memory snapshot store of the Saskatoon hospital tracker          *)
(* (src/app.py, lines 1-368): the global hospital_data, the refresh        *)
(* extract_simple_data run by the main thread and by the background        *)
(* updater thread, the 900 s sleep loop, and the /api/hospitals handler.   *)
(*                                                                         *)
(* Threads interleave at the statements that touch shared state or read    *)
(* the clock: the two datetime.now() calls, the rebinding of the global,   *)
(* the start of a sleep, the LOAD_GLOBAL of a request handler.  A step     *)
(* that touches neither is taken together with the one before it.          *)
(***************************************************************************)
EXTENDS Integers, Sequences, FiniteSets, TLC

----------------------------------------------------------------------------
(* Bounds of the model *)

\* clock resolution: clock ticks per second (datetime.now() is finer than
\* the one-second resolution of the "timestamp" format)
TicksPerSecond == 2

\* clock ticks that may elapse, one at a time, around each wake-up
MaxJitter == 1

\* sleep intervals the clock may cover
MaxIntervals == 2

\* concurrent request handlers
NumReaders == 1

\* calls of the page's fetchData that are followed
MaxFetches == 3

(* Program constants *)

\* time.sleep(900)
SleepSeconds == 900

SleepTicks == SleepSeconds * TicksPerSecond

MaxClock == MaxIntervals * SleepTicks + MaxJitter

Threads == {"main", "bg"}

Readers == 1..NumReaders

----------------------------------------------------------------------------
(* Python values and the snapshot *)

\* an int object
PyInt(n) == [type |-> "int", val |-> n]

\* the None object
PyNone == [type |-> "NoneType", val |-> 0]

\* datetime.now().strftime("%m/%d/%Y %I:%M:%S %p"): the date and the time of
\* day to the second; the sub-second part of the clock is dropped
Strftime(now) == "second " \o ToString(now \div TicksPerSecond)

\* datetime.now().isoformat(): the same instant at the clock's resolution
Isoformat(now) == [second |-> now \div TicksPerSecond, fraction |-> now % TicksPerSecond]

\* the order of two isoformat strings of equal width (lexicographic)
IsoLeq(a, b) ==
    \/ a.second < b.second
    \/ a.second = b.second /\ a.fraction <= b.fraction

\* an initial value that already claims an outcome
PlaceholderError ==
    [timestamp |-> "Data loading...",
     hospitals |-> [n \in {} |-> PyNone],
     status    |-> "error"]

\* the module-level initial value of hospital_data
Placeholder ==
    [timestamp |-> "Data loading...",
     hospitals |-> [n \in {} |-> PyNone],
     status    |-> "initializing"]

CountFields ==
    {"totalOccupied", "totalPlanned", "totalOvercapacity", "totalVacant",
     "totalALC", "admittedInED", "activeConsults"}

\* the "hospitals" literal of mock_data
MockHospitals ==
    [n \in {"Royal University Hospital", "St. Paul's Hospital",
            "Jim Pattison's Children Hospital", "Saskatoon City Hospital"} |->
       CASE n = "Royal University Hospital" ->
              [shortName |-> "RUH",
               totalOccupied |-> PyInt(468), totalPlanned |-> PyInt(457),
               totalOvercapacity |-> PyInt(25), totalVacant |-> PyInt(14),
               totalALC |-> PyInt(43),
               admittedInED |-> PyInt(19), activeConsults |-> PyInt(24)]
         [] n = "St. Paul's Hospital" ->
              [shortName |-> "SPH",
               totalOccupied |-> PyInt(256), totalPlanned |-> PyInt(254),
               totalOvercapacity |-> PyInt(25), totalVacant |-> PyInt(23),
               totalALC |-> PyInt(41),
               admittedInED |-> PyInt(8), activeConsults |-> PyInt(26)]
         [] n = "Jim Pattison's Children Hospital" ->
              [shortName |-> "JPCH",
               totalOccupied |-> PyInt(172), totalPlanned |-> PyInt(195),
               totalOvercapacity |-> PyInt(3), totalVacant |-> PyInt(26),
               totalALC |-> PyInt(1),
               admittedInED |-> PyInt(0), activeConsults |-> PyInt(0)]
         [] OTHER ->
              [shortName |-> "SCH",
               totalOccupied |-> PyInt(150), totalPlanned |-> PyInt(189),
               totalOvercapacity |-> PyInt(0), totalVacant |-> PyInt(39),
               totalALC |-> PyInt(8),
               admittedInED |-> PyNone, activeConsults |-> PyNone,
               emergencyDataNote |-> "Emergency department data not available in source PDF"]]

\* a candidate whose facilities lack their count fields
MockDataPartial(timestamp, lastUpdated) ==
    [timestamp   |-> timestamp,
     lastUpdated |-> lastUpdated,
     hospitals   |-> [n \in DOMAIN MockHospitals |-> [shortName |-> MockHospitals[n].shortName]],
     status      |-> "success"]

\* the dict literal bound to mock_data, given the two clock readings
MockData(timestamp, lastUpdated) ==
    [timestamp   |-> timestamp,
     lastUpdated |-> lastUpdated,
     hospitals   |-> MockHospitals,
     status      |-> "success"]

----------------------------------------------------------------------------
(* jsonify *)

JsonNull == [json |-> "null", val |-> 0]

JsonNumber(n) == [json |-> "number", val |-> n]

\* a serializer that writes a missing count as 0
JsonValueZero(v) == JsonNumber(v.val)

\* json.dumps of an int or None
JsonValue(v) == IF v.type = "NoneType" THEN JsonNull ELSE JsonNumber(v.val)

\* json.dumps of one facility dict: str values stay strings
JsonHospital(h) ==
    [k \in DOMAIN h |-> IF k \in CountFields THEN JsonValue(h[k]) ELSE h[k]]

\* jsonify(hospital_data): same keys, every value serialized
Jsonify(hd) ==
    [k \in DOMAIN hd |->
       IF k = "hospitals"
       THEN [n \in DOMAIN hd.hospitals |-> JsonHospital(hd.hospitals[n])]
       ELSE hd[k]]

----------------------------------------------------------------------------
(* State *)

VARIABLES
    hospital_data,  \* the global snapshot slot
    clock,          \* the wall clock, in ticks
    pc,             \* each thread's position
    timestamp,      \* each thread's first clock reading, formatted (line 38)
    mock_data,      \* each thread's local candidate (lines 37-84)
    log,            \* the records each thread has logged (lines 87, 90)
    calls,          \* how many times each thread has called extract_simple_data
    wake,           \* the instant the background thread's sleep ends
    rpc,            \* each request handler's position
    held,           \* the object each handler loaded from the global
    response,       \* each handler's response
    route_response, \* the latest response of index() or api_status()
    data_file,      \* the content of hospital_data.json (file-backed server)
    backup_file,    \* the content of hospital_data_backup.json
    fs_response,    \* the latest response of the file-backed server
    page,           \* the state of the HospitalTracker component
    fetches         \* the calls of fetchData, each with its position

vars == <<hospital_data, clock, pc, timestamp, mock_data, log, calls, wake,
          rpc, held, response, route_response,
          data_file, backup_file, fs_response, page, fetches>>

store == <<hospital_data, timestamp, mock_data, log>>

readers == <<rpc, held, response>>

\* the state of the file-backed server ("hospital server.py")
fileserver == <<data_file, backup_file, fs_response>>

\* the page in the browser
browser == <<page, fetches>>

\* the calls of fetchData
Fetches == 1..MaxFetches

\* JavaScript values held by the component
JsNull == [js |-> "null"]

JsString(str) == [js |-> "string", str |-> str]

JsObject(members) == [js |-> "object", members |-> members]

\* no response received
NoFetchResponse == [ok |-> FALSE]

\* a call of fetchData that has not been made
NotCalled == [stage |-> "idle", response |-> NoFetchResponse]

\* a file that does not exist
Absent == [file |-> "absent"]

\* what no handler has answered yet
NoRouteResponse == [route |-> "", code |-> 0]

NoData == [status |-> "none"]

NoTimestamp == ""

NoResponse == [code |-> 0, body |-> NoData]

InExtract(t) == pc[t] \in {"line39", "line86"}

Init ==
    /\ hospital_data = Placeholder
    /\ clock = 0
    /\ pc = [t \in Threads |-> IF t = "main" THEN "start" ELSE "unstarted"]
    /\ timestamp = [t \in Threads |-> NoTimestamp]
    /\ mock_data = [t \in Threads |-> NoData]
    /\ log = [t \in Threads |-> <<>>]
    /\ calls = [t \in Threads |-> 0]
    /\ wake = 0
    /\ rpc = [r \in Readers |-> "idle"]
    /\ held = [r \in Readers |-> NoData]
    /\ response = [r \in Readers |-> NoResponse]
    /\ route_response = NoRouteResponse
    /\ data_file = Absent
    /\ backup_file = Absent
    /\ fs_response = NoRouteResponse
    /\ page = [data |-> JsNull, loading |-> TRUE, error |-> JsNull]
    /\ fetches = [f \in Fetches |-> NotCalled]

----------------------------------------------------------------------------
(* extract_simple_data, as run by thread t *)

\* a handler that resets the slot
OnExceptionReset(hd) == Placeholder

\* a handler that records the failure in the slot
OnExceptionMarkError(hd) == [hd EXCEPT !.status = "error"]

\* except Exception as e: logger.error(...): the slot is not touched
OnException(hd) == hd

\* an exception that leaves extract_simple_data and ends the thread
ExceptPropagates == "dead"

\* where control goes after the except clause: the function returns
ExceptTarget == "returned"

\* the caller invokes extract_simple_data(), which enters the try block and
\* evaluates "timestamp": datetime.now().strftime(...)
Call(t) ==
    /\ pc[t] = "call"
    /\ calls' = [calls EXCEPT ![t] = @ + 1]
    /\ timestamp' = [timestamp EXCEPT ![t] = Strftime(clock)]
    /\ pc' = [pc EXCEPT ![t] = "line39"]
    /\ UNCHANGED <<hospital_data, mock_data, log, clock, wake, readers, route_response, fileserver, browser>>

\* "lastUpdated": datetime.now().isoformat(), and the rest of the literal
ReadLastUpdated(t) ==
    /\ pc[t] = "line39"
    /\ mock_data' = [mock_data EXCEPT ![t] = MockData(timestamp[t], Isoformat(clock))]
    /\ timestamp' = [timestamp EXCEPT ![t] = NoTimestamp]
    /\ pc' = [pc EXCEPT ![t] = "line86"]
    /\ UNCHANGED <<hospital_data, log, clock, calls, wake, readers, route_response, fileserver, browser>>

\* an exception raised while the candidate is being built (lines 37-84),
\* caught by except Exception as e: logger.error(...); return
Raise(t) ==
    /\ pc[t] = "line39"
    /\ timestamp' = [timestamp EXCEPT ![t] = NoTimestamp]
    /\ hospital_data' = OnException(hospital_data)
    /\ log' = [log EXCEPT ![t] = Append(@, "ERROR Error updating data")]
    /\ pc' = [pc EXCEPT ![t] = ExceptTarget]
    /\ UNCHANGED <<mock_data, clock, calls, wake, readers, route_response, fileserver, browser>>

\* an assignment without the global declaration: it binds a local name
AssignLocal(t) ==
    /\ pc[t] = "line86"
    /\ mock_data' = [mock_data EXCEPT ![t] = NoData]
    /\ log' = [log EXCEPT ![t] = Append(@, "INFO Data updated successfully")]
    /\ pc' = [pc EXCEPT ![t] = "returned"]
    /\ UNCHANGED <<hospital_data, timestamp, clock, calls, wake, readers, route_response, fileserver, browser>>

\* hospital_data = mock_data; logger.info(...); return
Assign(t) ==
    /\ pc[t] = "line86"
    /\ hospital_data' = mock_data[t]
    /\ mock_data' = [mock_data EXCEPT ![t] = NoData]
    /\ log' = [log EXCEPT ![t] = Append(@, "INFO Data updated successfully")]
    /\ pc' = [pc EXCEPT ![t] = "returned"]
    /\ UNCHANGED <<timestamp, clock, calls, wake, readers, route_response, fileserver, browser>>

----------------------------------------------------------------------------
(* __main__ and background_updater *)

\* Thread(target=background_updater, daemon=True).start()
StartThread ==
    /\ pc["main"] = "start"
    /\ pc' = [pc EXCEPT !["main"] = "call", !["bg"] = "call"]
    /\ UNCHANGED <<store, clock, calls, wake, readers, route_response, fileserver, browser>>

\* app.run(...): the server starts accepting requests
AppRun ==
    /\ pc["main"] = "returned"
    /\ pc' = [pc EXCEPT !["main"] = "serving"]
    /\ UNCHANGED <<store, clock, calls, wake, readers, route_response, fileserver, browser>>

\* the instant a sleep that starts at `now` ends
NextWake(now) == now + SleepTicks

\* time.sleep(900) begins
Sleep ==
    /\ pc["bg"] = "returned"
    /\ wake' = NextWake(clock)
    /\ pc' = [pc EXCEPT !["bg"] = "sleeping"]
    /\ UNCHANGED <<store, clock, calls, readers, route_response, fileserver, browser>>

\* time.sleep(900) returns; while True loops
WakeUp ==
    /\ pc["bg"] = "sleeping"
    /\ clock >= wake
    /\ pc' = [pc EXCEPT !["bg"] = "call"]
    /\ UNCHANGED <<store, clock, calls, wake, readers, route_response, fileserver, browser>>

\* time passes: one tick, or up to the end of the running sleep
Advance ==
    /\ \/ /\ clock % SleepTicks < MaxJitter
          /\ clock' = clock + 1
       \/ /\ pc["bg"] = "sleeping"
          /\ clock < wake
          /\ wake <= MaxClock
          /\ clock' = wake
    /\ UNCHANGED <<store, pc, calls, wake, readers, route_response, fileserver, browser>>

----------------------------------------------------------------------------
(* GET /api/hospitals *)

\* a server started before the data is initialized
ServerUpEarly == pc["main"] # "start"

\* app.run is reached only when the main thread's refresh has returned
ServerUp == pc["main"] = "serving"

\* a handler that answers 503 while only the placeholder exists
ResponseCodeUnavailable(hd) == IF hd.status = "initializing" THEN 503 ELSE 200

\* return jsonify(hospital_data): Flask's default status
ResponseCode(hd) == 200

\* a handler that reads the global again for every field but the first
RereadGlobal(loaded, current) ==
    [k \in DOMAIN current |->
       IF k = "timestamp" /\ k \in DOMAIN loaded THEN loaded[k] ELSE current[k]]

\* jsonify's argument: the one object loaded from the global, whatever the
\* global is bound to by the time it is serialized
Argument(loaded, current) == loaded

\* a handler that runs the producer before it reads the store
ApiHospitalsLoadRefreshing(r) ==
    /\ ServerUp
    /\ rpc[r] \in {"idle", "done"}
    /\ hospital_data' = MockData(Strftime(clock), Isoformat(clock))
    /\ held' = [held EXCEPT ![r] = hospital_data']
    /\ response' = [response EXCEPT ![r] = NoResponse]
    /\ rpc' = [rpc EXCEPT ![r] = "loaded"]
    /\ UNCHANGED <<timestamp, mock_data, log, clock, pc, calls, wake,
                   route_response, fileserver, browser>>

\* the handler starts and loads the global (LOAD_GLOBAL hospital_data)
ApiHospitalsLoad(r) ==
    /\ ServerUp
    /\ rpc[r] \in {"idle", "done"}
    /\ held' = [held EXCEPT ![r] = hospital_data]
    /\ response' = [response EXCEPT ![r] = NoResponse]
    /\ rpc' = [rpc EXCEPT ![r] = "loaded"]
    /\ UNCHANGED <<store, clock, pc, calls, wake, route_response, fileserver, browser>>

\* a handler that stamps the snapshot with the time it was served
ApiHospitalsRespondStamping(r) ==
    /\ rpc[r] = "loaded"
    /\ response' = [response EXCEPT ![r] =
                      [code |-> ResponseCode(held[r]),
                       body |-> Jsonify(Argument(held[r], hospital_data))]]
    /\ hospital_data' = [hospital_data EXCEPT !.timestamp = Strftime(clock + 1)]
    /\ rpc' = [rpc EXCEPT ![r] = "done"]
    /\ UNCHANGED <<timestamp, mock_data, log, clock, pc, calls, wake, held,
                   route_response, fileserver, browser>>

\* jsonify serializes the loaded object and the handler returns
ApiHospitalsRespond(r) ==
    /\ rpc[r] = "loaded"
    /\ response' = [response EXCEPT ![r] =
                      [code |-> ResponseCode(held[r]),
                       body |-> Jsonify(Argument(held[r], hospital_data))]]
    /\ rpc' = [rpc EXCEPT ![r] = "done"]
    /\ UNCHANGED <<store, clock, pc, calls, wake, held, route_response, fileserver, browser>>

(* GET / and GET /api/status of the in-memory server *)

\* the page index() renders: the constant HTML_TEMPLATE, without arguments
HtmlTemplate == [html |-> "HTML_TEMPLATE"]

\* index(): render_template_string(HTML_TEMPLATE)
Index ==
    /\ ServerUp
    /\ route_response' = [route |-> "/", code |-> 200, body |-> HtmlTemplate]
    /\ UNCHANGED <<store, clock, pc, calls, wake, readers, fileserver, browser>>

\* the dictionary api_status() builds: two literals and the time of the call
StatusBody(hd, now) ==
    [status         |-> "ok",
     timestamp      |-> Isoformat(now),
     data_available |-> TRUE]

\* api_status(): jsonify of the dictionary, 200
ApiStatus ==
    /\ ServerUp
    /\ route_response' = [route |-> "/api/status", code |-> 200,
                          body |-> StatusBody(hospital_data, clock)]
    /\ UNCHANGED <<store, clock, pc, calls, wake, readers, fileserver, browser>>

(* The file-backed server ("hospital server.py", lines 371-737) *)

\* Python values read from a file
PyStr(str) == [type |-> "str", str |-> str]

PyList(elems) == [type |-> "list", elems |-> elems]

PyDict(items) == [type |-> "dict", items |-> items]

\* JSON documents
JsonString(str) == [json |-> "string", str |-> str]

JsonArray(elems) == [json |-> "array", elems |-> elems]

JsonObject(members) == [json |-> "object", members |-> members]

\* the text of a file that is not JSON
NotJson == [json |-> "invalid"]

\* a file holding the text j
FileOf(j) == [file |-> "present", text |-> j]

\* json.load of a well-formed document
RECURSIVE JsonLoads(_)
JsonLoads(j) ==
    CASE j.json = "null"   -> PyNone
      [] j.json = "number" -> PyInt(j.val)
      [] j.json = "string" -> PyStr(j.str)
      [] j.json = "array"  ->
            PyList([i \in DOMAIN j.elems |-> JsonLoads(j.elems[i])])
      [] j.json = "object" ->
            PyDict([k \in DOMAIN j.members |-> JsonLoads(j.members[k])])

\* jsonify of a value read by json.load
RECURSIVE JsonDumps(_)
JsonDumps(v) ==
    CASE v.type = "NoneType" -> JsonNull
      [] v.type = "int"      -> JsonNumber(v.val)
      [] v.type = "str"      -> JsonString(v.str)
      [] v.type = "list"     ->
            JsonArray([i \in DOMAIN v.elems |-> JsonDumps(v.elems[i])])
      [] v.type = "dict"     ->
            JsonObject([k \in DOMAIN v.items |-> JsonDumps(v.items[k])])

\* bool(v), the test of "if data:" and of "'ok' if data else 'error'"
Truthy(v) ==
    CASE v.type = "NoneType" -> FALSE
      [] v.type = "int"      -> v.val # 0
      [] v.type = "str"      -> v.str # ""
      [] v.type = "list"     -> v.elems # <<>>
      [] v.type = "dict"     -> DOMAIN v.items # {}

\* one open-and-json.load inside the try of load_hospital_data: a parse
\* error is caught by the except clause, which returns None
LoadFile(f) == IF f.text = NotJson THEN PyNone ELSE JsonLoads(f.text)

\* load_hospital_data(): the data file if it exists, else the backup file
\* if it exists, else None
load_hospital_data(df, bf) ==
    IF df # Absent THEN LoadFile(df)
    ELSE IF bf # Absent THEN LoadFile(bf)
    ELSE PyNone

\* the documents the environment may put in a file
EmptyObject == JsonObject(<<>>)

OneElementArray == JsonArray(<<JsonNumber(1)>>)

HospitalsNull == JsonObject([hospitals |-> JsonNull])

SnapshotDocument(n) ==
    JsonObject([timestamp   |-> JsonString("second " \o ToString(n)),
                lastUpdated |-> JsonString("second " \o ToString(n)),
                hospitals   |-> JsonObject([RUH |->
                                   JsonObject([totalOccupied |-> JsonNumber(468)])]),
                status      |-> JsonString("success")])

Documents ==
    {NotJson, JsonNull, JsonNumber(0), EmptyObject, OneElementArray,
     HospitalsNull, SnapshotDocument(1), SnapshotDocument(2)}

BackupDocuments == {NotJson, SnapshotDocument(1)}

\* the scraper, an operator, or a fault: a file is written or removed
WriteDataFile ==
    /\ \E f \in {Absent} \cup {FileOf(j) : j \in Documents} : data_file' = f
    /\ UNCHANGED <<store, clock, pc, calls, wake, readers, route_response, browser,
                   backup_file, fs_response>>

WriteBackupFile ==
    /\ \E f \in {Absent} \cup {FileOf(j) : j \in BackupDocuments} :
           backup_file' = f
    /\ UNCHANGED <<store, clock, pc, calls, wake, readers, route_response, browser,
                   data_file, fs_response>>

\* the response Flask sends when a view function raises
InternalServerError(exception) ==
    [code |-> 500, body |-> [exception |-> exception]]

\* the test api_hospitals() and api_status() apply to the loaded value
HasData(data) == Truthy(data)

\* api_hospitals() of the file-backed server
FileApiHospitalsResponse(data) ==
    IF HasData(data)
    THEN [code |-> 200, body |-> JsonDumps(data)]
    ELSE [code |-> 503,
          body |-> JsonObject([error |-> JsonString("Hospital data not available")])]

FileApiHospitals ==
    /\ LET data == load_hospital_data(data_file, backup_file)
           answer == FileApiHospitalsResponse(data)
       IN  fs_response' = [route |-> "/api/hospitals", code |-> answer.code,
                           body |-> answer.body]
    /\ UNCHANGED <<store, clock, pc, calls, wake, readers, route_response, browser,
                   data_file, backup_file>>

\* data.get(key, default)
DictGet(data, key, default) ==
    IF key \in DOMAIN data.items THEN data.items[key] ELSE default

\* the types len() accepts
Sized == {"str", "list", "dict"}

\* len(v) for a sized v; of a string the model knows only whether it is empty
PyLen(v) ==
    CASE v.type = "str"  -> IF v.str = "" THEN 0 ELSE 1
      [] v.type = "list" -> Len(v.elems)
      [] v.type = "dict" -> Cardinality(DOMAIN v.items)

\* the dictionary api_status() builds before "if data:"
FileStatusBase(data, df, bf, now) ==
    [status        |-> JsonString(IF Truthy(data) THEN "ok" ELSE "error"),
     dataAvailable |-> data # PyNone,
     lastCheck     |-> Isoformat(now),
     dataFile      |-> df # Absent,
     backupFile    |-> bf # Absent]

\* api_status() of the file-backed server
FileApiStatusResponse(data, df, bf, now) ==
    LET base == FileStatusBase(data, df, bf, now)
    IN  IF ~Truthy(data)
        THEN [code |-> 200, body |-> base]
        ELSE IF data.type # "dict"
        THEN InternalServerError("AttributeError")
        ELSE LET hospitals == DictGet(data, "hospitals", PyDict(<<>>))
             IN  IF hospitals.type \notin Sized
                 THEN InternalServerError("TypeError")
                 ELSE [code |-> 200,
                       body |-> [status        |-> base.status,
                                 dataAvailable |-> base.dataAvailable,
                                 lastCheck     |-> base.lastCheck,
                                 dataFile      |-> base.dataFile,
                                 backupFile    |-> base.backupFile,
                                 dataTimestamp |-> JsonDumps(DictGet(data, "timestamp", PyNone)),
                                 lastUpdated   |-> JsonDumps(DictGet(data, "lastUpdated", PyNone)),
                                 hospitalCount |-> PyLen(hospitals)]]

FileApiStatus ==
    /\ LET data == load_hospital_data(data_file, backup_file)
           answer == FileApiStatusResponse(data, data_file, backup_file, clock)
       IN  fs_response' = [route |-> "/api/status", code |-> answer.code,
                           body |-> answer.body]
    /\ UNCHANGED <<store, clock, pc, calls, wake, readers, route_response, browser,
                   data_file, backup_file>>

\* time passes while the file-backed server runs
Tick ==
    /\ clock < MaxJitter
    /\ clock' = clock + 1
    /\ UNCHANGED <<store, pc, calls, wake, readers, route_response, fileserver, browser>>

(* The page: the HospitalTracker component (lines 126-199) *)

\* everything outside the browser
server == <<store, clock, pc, calls, wake, readers, route_response, fileserver>>

\* the truth value of a JavaScript value, as in "error || !data"
JsTruthy(v) ==
    CASE v.js = "null"   -> FALSE
      [] v.js = "string" -> v.str # ""
      [] v.js = "object" -> TRUE

\* setData, setError, setLoading
SetData(p, result) == [p EXCEPT !.data = result]

SetError(p, e) == [p EXCEPT !.error = e]

SetLoading(p, b) == [p EXCEPT !.loading = b]

\* what the component renders: the spinner, the "Data Unavailable" view
\* with its Try Again button, or the hospital cards
View(p) ==
    IF p.loading THEN "loading"
    ELSE IF JsTruthy(p.error) \/ ~JsTruthy(p.data) THEN "unavailable"
    ELSE "cards"

\* the bodies /api/hospitals of the in-memory server can send
ServedBodies ==
    {Jsonify(Placeholder), Jsonify(MockData(Strftime(0), Isoformat(0)))}

\* the responses fetch('/api/hospitals') can resolve to: a 200 of the
\* server, a 200 whose body an intermediary replaced, an error status
FetchResponses ==
    {[ok |-> TRUE, body |-> b] : b \in ServedBodies \cup {NotJson}}
        \cup {NoFetchResponse}

\* the message of the error fetch() rejects with when the network fails
NetworkError == "Failed to fetch"

\* the message of the error response.json() rejects with
SyntaxError == "Unexpected token"

\* the first call of fetchData that has not been made
NextFetch == CHOOSE f \in Fetches :
                 /\ fetches[f].stage = "idle"
                 /\ \A g \in Fetches : g < f => fetches[g].stage # "idle"

\* fetchData() up to "await fetch('/api/hospitals')"
CallFetchData ==
    /\ \E f \in Fetches : fetches[f].stage = "idle"
    /\ fetches' = [fetches EXCEPT ![NextFetch].stage = "fetching"]
    /\ UNCHANGED <<server, page>>

\* useEffect: fetchData() and setInterval(fetchData, 15 * 60 * 1000)
Mount ==
    /\ fetches[1].stage = "idle"
    /\ CallFetchData

\* the interval fires
IntervalFires ==
    /\ fetches[1].stage # "idle"
    /\ CallFetchData

\* a click on Try Again, which the "Data Unavailable" view shows
TryAgain ==
    /\ View(page) = "unavailable"
    /\ CallFetchData

\* the statements of the try block after "await response.json()"
ThenBranchKeepsError(p, result) == SetData(p, result)

ThenBranch(p, result) == SetError(SetData(p, result), JsNull)

\* catch (err) { setError(err.message) }
CatchBranch(p, message) == SetError(p, JsString(message))

\* fetchData from the catch block to its end: setLoading(false)
FetchFails(f, message) ==
    /\ page' = SetLoading(CatchBranch(page, message), FALSE)
    /\ fetches' = [fetches EXCEPT ![f] = [stage |-> "done", response |-> NoFetchResponse]]
    /\ UNCHANGED server

\* fetch() resolves: "if (!response.ok) throw", else await response.json()
FetchResolves(f) ==
    /\ fetches[f].stage = "fetching"
    /\ \E r \in FetchResponses :
          IF r.ok
          THEN /\ fetches' = [fetches EXCEPT ![f] = [stage |-> "parsing", response |-> r]]
               /\ UNCHANGED <<server, page>>
          ELSE FetchFails(f, "Failed to fetch data")

\* fetch() rejects: the server cannot be reached
FetchRejects(f) ==
    /\ fetches[f].stage = "fetching"
    /\ FetchFails(f, NetworkError)

\* response.json(): the body parsed into an object
ResponseJson(body) == JsObject(body)

\* response.json() resolves: setData(result); setError(null); setLoading(false)
JsonResolves(f) ==
    /\ fetches[f].stage = "parsing"
    /\ fetches[f].response.body # NotJson
    /\ page' = SetLoading(ThenBranch(page, ResponseJson(fetches[f].response.body)), FALSE)
    /\ fetches' = [fetches EXCEPT ![f] = [stage |-> "done", response |-> NoFetchResponse]]
    /\ UNCHANGED server

\* response.json() rejects: the body is not JSON
JsonRejects(f) ==
    /\ fetches[f].stage = "parsing"
    /\ fetches[f].response.body = NotJson
    /\ FetchFails(f, SyntaxError)

----------------------------------------------------------------------------
(* Specifications *)

MainStep ==
    \/ StartThread
    \/ Call("main")
    \/ ReadLastUpdated("main")
    \/ Raise("main")
    \/ Assign("main")
    \/ AppRun

BgStep ==
    \/ Call("bg")
    \/ ReadLastUpdated("bg")
    \/ Raise("bg")
    \/ Assign("bg")
    \/ Sleep
    \/ WakeUp

ReaderStep ==
    \E r \in Readers : ApiHospitalsLoad(r) \/ ApiHospitalsRespond(r)

Next ==
    \/ MainStep
    \/ BgStep
    \/ ReaderStep
    \/ Advance

Spec == Init /\ [][Next]_vars

\* the two threads and the clock alone: request handlers write nothing the
\* threads read
SchedNext ==
    \/ MainStep
    \/ BgStep
    \/ Advance

\* the threads are scheduled and time passes
LiveSpec ==
    /\ Init
    /\ [][SchedNext]_vars
    /\ WF_vars(MainStep)
    /\ WF_vars(BgStep)
    /\ WF_vars(Advance)

\* the outcome of thread t's latest extract_simple_data
\* the in-memory server with the two routes that do not read the store
RouteNext ==
    \/ MainStep
    \/ BgStep
    \/ Advance
    \/ Index
    \/ ApiStatus

RouteSpec == Init /\ [][RouteNext]_vars

\* the file-backed server and the environment that writes its files
FileNext ==
    \/ WriteDataFile
    \/ WriteBackupFile
    \/ FileApiHospitals
    \/ FileApiStatus
    \/ Tick

FileSpec == Init /\ [][FileNext]_vars

\* the page and the network between it and the server
PageNext ==
    \/ Mount
    \/ IntervalFires
    \/ TryAgain
    \/ \E f \in Fetches : FetchResolves(f)
    \/ \E f \in Fetches : FetchRejects(f)
    \/ \E f \in Fetches : JsonResolves(f)
    \/ \E f \in Fetches : JsonRejects(f)

PageSpec == Init /\ [][PageNext]_vars

LastLog(t) == IF log[t] = <<>> THEN "" ELSE log[t][Len(log[t])]

Succeeded(t) == LastLog(t) = "INFO Data updated successfully"

Failed(t) == LastLog(t) = "ERROR Error updating data"

----------------------------------------------------------------------------
(* Properties of the snapshot store *)

\* thread t takes the step that leaves position p
Leaves(t, p) == pc[t] = p /\ pc'[t] # p

\* thread t takes the step that reaches position p
Enters(t, p) == pc[t] # p /\ pc'[t] = p

\* thread t takes the step in which its refresh fails: the exception is
\* raised and the except clause logs it
FailStep(t) == log'[t] = Append(log[t], "ERROR Error updating data")

\* thread t takes the step in which its refresh succeeds: the assignment
\* and the log record after it
SuccessStep(t) == log'[t] = Append(log[t], "INFO Data updated successfully")

\* C1: non-regression on failure. No step of a refresh whose producer raises
\* (its call, then the raise and the except clause up to the return) changes
\* the slot: a read after the failed refresh sees what a read before it saw,
\* and never an older, empty or placeholder value put there by the failure.
C1_FailedRefreshKeepsSnapshot ==
    [][\A t \in Threads :
         (Leaves(t, "call") \/ FailStep(t)) => hospital_data' = hospital_data]_vars

\* Scenario C: the background thread's second refresh has failed and
\* returned, and the slot still holds a populated snapshot
C1_Witness ==
    /\ Len(log["bg"]) = 2
    /\ Failed("bg")
    /\ pc["bg"] = "sleeping"
    /\ hospital_data.status = "success"

\* handler r takes the step in which it builds its response and returns
Responds(r) == rpc[r] = "loaded" /\ rpc'[r] = "done"

\* C2: atomicity. The body a handler responds with is the serialization of
\* one whole snapshot: the one the slot held when the handler read it (the
\* pre-refresh snapshot) or the one the slot holds when the handler responds
\* (the post-refresh snapshot), never a mix of the fields of the two.
C2_ReadsAreAtomic ==
    [][\A r \in Readers :
         Responds(r) =>
            \/ response'[r].body = Jsonify(held[r])
            \/ response'[r].body = Jsonify(hospital_data)]_vars

\* a handler has read a populated snapshot and, before it has built its
\* response, a refresh has replaced the slot with a snapshot of another
\* timestamp
C2_Witness ==
    \E r \in Readers :
        /\ rpc[r] = "loaded"
        /\ held[r].status = "success"
        /\ hospital_data.status = "success"
        /\ hospital_data.timestamp # held[r].timestamp

\* C3: monotonic timestamps. Whenever a populated snapshot is replaced, the
\* new lastUpdated is greater than or equal to the old one.
C3_MonotonicLastUpdated ==
    [][(hospital_data.status = "success" /\ hospital_data'.status = "success")
         => IsoLeq(hospital_data.lastUpdated, hospital_data'.lastUpdated)]_vars

IsPlaceholder(s) ==
    /\ s.status = "initializing"
    /\ DOMAIN s.hospitals = {}

IsPopulated(s) ==
    /\ s.status = "success"
    /\ DOMAIN s.hospitals # {}
    /\ \A n \in DOMAIN s.hospitals : CountFields \subseteq DOMAIN s.hospitals[n]

\* C4: the slot, every object a handler has loaded and every response body
\* is the placeholder (initializing, no facilities) or a fully populated
\* snapshot (success, facilities with all their count fields).
C4_PlaceholderOrPopulated ==
    /\ IsPlaceholder(hospital_data) \/ IsPopulated(hospital_data)
    /\ \A r \in Readers :
         /\ rpc[r] = "loaded" => IsPlaceholder(held[r]) \/ IsPopulated(held[r])
         /\ rpc[r] = "done" =>
              IsPlaceholder(response[r].body) \/ IsPopulated(response[r].body)

\* one reader has been served a populated snapshot, and a refresh that
\* failed has left the slot populated
C4_Witness ==
    /\ IsPopulated(hospital_data)
    /\ \E t \in Threads : Failed(t)
    /\ \E r \in Readers : rpc[r] = "done" /\ IsPopulated(response[r].body)

----------------------------------------------------------------------------
(* Properties of the scheduler *)

\* C5: scheduler survival. Every refresh attempt of the background thread,
\* whether it succeeded or failed, is followed by its sleep; every sleep is
\* requested for the same fixed interval of 900 s; and every sleep that ends
\* within the modelled horizon is followed by the next call of refresh.
C5_SchedulerSurvives ==
    /\ (pc["bg"] = "line39") ~> (pc["bg"] = "sleeping")
    /\ [][Enters("bg", "sleeping") => wake' = clock + SleepSeconds * TicksPerSecond]_vars
    /\ (pc["bg"] = "sleeping" /\ wake <= MaxClock) ~> (pc["bg"] = "line39")
    /\ [](pc["bg"] = "sleeping" /\ Failed("bg") /\ wake <= MaxClock
            => <>(pc["bg"] = "line39" /\ clock >= wake))

\* the background thread is in a refresh it started one interval or more
\* after a refresh that failed
C5_Witness ==
    /\ pc["bg"] = "line39"
    /\ Failed("bg")
    /\ clock >= SleepSeconds * TicksPerSecond

\* C6: refresh is invoked exactly once between process start and the end of
\* the first fixed interval: before the first interval has elapsed there is
\* never a second invocation.
C6_OneRefreshAtStartup ==
    clock < SleepSeconds * TicksPerSecond => calls["main"] + calls["bg"] <= 1

\* C7: single writer. Two executions of extract_simple_data are never in
\* progress at the same time.
C7_SingleWriter ==
    ~(InExtract("main") /\ InExtract("bg"))

\* C8: a read never fails and never waits. Once the server runs, a handler
\* can start whatever the two threads are doing, a started handler can always
\* respond, and its response is 200 with exactly the snapshot the slot held
\* when the handler read it.
C8_ReadNeverBlocks ==
    \A r \in Readers :
        /\ (ServerUp /\ rpc[r] \in {"idle", "done"}) => ENABLED ApiHospitalsLoad(r)
        /\ rpc[r] = "loaded" => ENABLED ApiHospitalsRespond(r)
        /\ rpc[r] = "done" => response[r] = [code |-> 200, body |-> Jsonify(held[r])]

\* a response was produced from the placeholder while the background thread
\* holds a candidate it has built and not yet assigned
C8_Witness ==
    \E r \in Readers :
        /\ rpc[r] = "done"
        /\ response[r].code = 200
        /\ response[r].body.status = "initializing"
        /\ pc["bg"] = "line86"

\* C9: Scenario D. The slot changes only in the assignment step of a
\* refresh whose producer succeeded, every such step puts that refresh's
\* candidate in the slot, and the steps of a refresh whose producer failed
\* leave the slot as it was.
C9_OnlySuccessfulTicksChange ==
    [][/\ hospital_data' # hospital_data =>
            \E t \in Threads : Leaves(t, "line86") /\ SuccessStep(t)
       /\ \A t \in Threads : Leaves(t, "line86") => hospital_data' = mock_data[t]
       /\ \A t \in Threads :
            (Leaves(t, "call") \/ Leaves(t, "line39") \/ FailStep(t))
                => hospital_data' = hospital_data]_vars

\* the background thread's ticks went success, failure, success, and the
\* slot holds the candidate of the third
C9_Witness ==
    /\ log["bg"] = <<"INFO Data updated successfully", "ERROR Error updating data",
                     "INFO Data updated successfully">>
    /\ pc["bg"] = "returned"
    /\ hospital_data.status = "success"
    /\ hospital_data.lastUpdated.second >= 2 * SleepSeconds

----------------------------------------------------------------------------
(* Scenarios and stability of the store *)

\* C16: Scenario A. While no refresh has run (no thread has called
\* extract_simple_data yet) the slot holds the placeholder: status is
\* "initializing" and the hospitals mapping is empty.
C16_FreshStoreIsPlaceholder ==
    (\A t \in Threads : calls[t] = 0) =>
        /\ hospital_data.status = "initializing"
        /\ DOMAIN hospital_data.hospitals = {}

\* the background thread has been started and nothing has been refreshed
C16_Witness ==
    /\ pc = [t \in Threads |-> "call"]
    /\ \A t \in Threads : calls[t] = 0
    /\ hospital_data.timestamp = "Data loading..."

\* C17: Scenario B. The step in which a refresh succeeds leaves the slot
\* holding exactly that refresh's candidate: status "success", and Royal
\* University Hospital with 468 occupied and 457 planned.
C17_SuccessInstallsCandidate ==
    [][\A t \in Threads :
         SuccessStep(t) =>
            /\ hospital_data' = mock_data[t]
            /\ hospital_data'.status = "success"
            /\ "Royal University Hospital" \in DOMAIN hospital_data'.hospitals
            /\ LET ruh == hospital_data'.hospitals["Royal University Hospital"]
               IN  /\ ruh.totalOccupied = PyInt(468)
                   /\ ruh.totalPlanned = PyInt(457)]_vars

\* the main thread's refresh has just succeeded, no other refresh has
\* written, and the slot holds the 468 / 457 record
C17_Witness ==
    /\ pc["main"] = "returned"
    /\ Succeeded("main")
    /\ log["bg"] = <<>>
    /\ hospital_data.status = "success"
    /\ hospital_data.hospitals["Royal University Hospital"].totalOccupied.val = 468

EmergencyFields == {"admittedInED", "activeConsults"}

\* C18: null versus zero. In the slot and in every body served, each
\* facility has both emergency fields; a value the source gives as
\* unavailable is None in the slot and null in the body, a value it gives as
\* zero is 0 in both, and the body's value is null exactly when the object
\* the handler read has None.
C18_NullIsNotZero ==
    /\ hospital_data.status = "success" =>
         /\ \A k \in EmergencyFields :
              /\ hospital_data.hospitals["Saskatoon City Hospital"][k] = PyNone
              /\ hospital_data.hospitals["Jim Pattison's Children Hospital"][k] = PyInt(0)
    /\ \A r \in Readers :
         (rpc[r] = "done" /\ response[r].body.status = "success") =>
            \A n \in DOMAIN held[r].hospitals : \A k \in EmergencyFields :
               /\ n \in DOMAIN response[r].body.hospitals
               /\ k \in DOMAIN response[r].body.hospitals[n]
               /\ LET py == held[r].hospitals[n][k]
                      js == response[r].body.hospitals[n][k]
                  IN  /\ (py = PyNone) <=> (js = JsonNull)
                      /\ (py = PyInt(0)) <=> (js = JsonNumber(0))
                      /\ js # JsonNull => js = JsonNumber(py.val)

\* a populated snapshot has been served: null for Saskatoon City Hospital,
\* 0 for the children's hospital
C18_Witness ==
    \E r \in Readers :
        /\ rpc[r] = "done"
        /\ response[r].body.status = "success"
        /\ response[r].body.hospitals["Saskatoon City Hospital"].admittedInED = JsonNull
        /\ response[r].body.hospitals["Jim Pattison's Children Hospital"].admittedInED
             = JsonNumber(0)

\* C19: startup ordering. A handler runs only once the main thread's own
\* call of extract_simple_data has returned, so when that call succeeded no
\* handler has read the placeholder and no response carries it.
C19_ServesAfterOwnRefresh ==
    \A r \in Readers :
        /\ rpc[r] # "idle" => (Len(log["main"]) = 1 /\ pc["main"] = "serving")
        /\ Succeeded("main") =>
             /\ rpc[r] = "loaded" => held[r].status = "success"
             /\ rpc[r] = "done" => response[r].body.status = "success"

\* the main thread's refresh succeeded and a response has been served while
\* the background thread has not assigned anything yet
C19_Witness ==
    /\ Succeeded("main")
    /\ log["bg"] = <<>>
    /\ \E r \in Readers : rpc[r] = "done" /\ response[r].code = 200

\* C20: success is stable. Once the slot holds a snapshot with status
\* "success", every later slot value has status "success".
C20_SuccessIsStable ==
    [][hospital_data.status = "success" => hospital_data'.status = "success"]_vars

\* the slot is populated although the main thread's refresh failed after
\* the background thread's had succeeded
C20_Witness ==
    /\ hospital_data.status = "success"
    /\ Failed("main")
    /\ Succeeded("bg")
    /\ pc["main"] = "serving"

(* Properties of the file-backed server *)

\* a step in which the file-backed api_hospitals() sends a new response
HospitalsAnswered ==
    /\ fs_response' # fs_response
    /\ fs_response'.route = "/api/hospitals"

\* the body of the 503 answer
NotAvailableBody ==
    JsonObject([error |-> JsonString("Hospital data not available")])

\* C11: the file-backed GET /api/hospitals answers 503 with the error body
\* when load_hospital_data returns None, and 200 with the loaded value
\* whenever load_hospital_data returns a value.
C11_HospitalsFollowsLoad ==
    [][HospitalsAnswered =>
        LET data == load_hospital_data(data_file, backup_file)
        IN  IF data = PyNone
            THEN fs_response'.code = 503 /\ fs_response'.body = NotAvailableBody
            ELSE fs_response'.code = 200 /\ fs_response'.body = JsonDumps(data)]_vars

\* C12: once the file-backed GET /api/hospitals has answered 200 with a
\* snapshot, the next answer of that route is not a 503.
C12_ServedDataIsKept ==
    [][(fs_response.route = "/api/hospitals" /\ fs_response.code = 200)
        => ~(fs_response'.route = "/api/hospitals" /\ fs_response'.code = 503)]_vars

\* C13: every answer of GET /api/status, of the in-memory server and of the
\* file-backed server, is a 200.
C13_StatusAlwaysOk ==
    /\ route_response.route = "/api/status" => route_response.code = 200
    /\ fs_response.route = "/api/status" => fs_response.code = 200

(* Properties of the in-memory routes *)

\* a step in which the in-memory api_status() sends a new response
StatusAnswered ==
    /\ route_response' # route_response
    /\ route_response'.route = "/api/status"

\* C14: the status and data-available fields of GET /api/status follow the
\* snapshot: a store holding the placeholder is not reported as "ok" with
\* data available, a store holding a success snapshot is.
C14_StatusFollowsStore ==
    [][StatusAnswered =>
        LET body == route_response'.body
        IN  /\ IsPlaceholder(hospital_data) =>
                  ~(body.status = "ok" /\ body.data_available)
            /\ hospital_data.status = "success" =>
                  (body.status = "ok" /\ body.data_available)]_vars

\* what the refresh task owns: the store, the threads' positions, the timer
scheduler == <<store, pc, calls, wake, clock>>

\* a step of one of the three request handlers
HandlerStep == Index \/ ApiStatus \/ ReaderStep

\* C15: no step of index(), api_hospitals() or api_status() changes the
\* store, a thread's position, the count of refreshes or the timer; once the
\* server is up every handler can take its next step whatever the refresh
\* task is doing; the main thread refreshes at most once and the background
\* thread at most once plus once per elapsed sleep interval.
C15_SchedulerIndependent ==
    /\ ~ENABLED (HandlerStep /\ scheduler' # scheduler)
    /\ ServerUp =>
          /\ ENABLED Index
          /\ ENABLED ApiStatus
          /\ \A r \in Readers :
                ENABLED (ApiHospitalsLoad(r) \/ ApiHospitalsRespond(r))
    /\ calls["main"] <= 1
    /\ calls["bg"] <= 1 + (clock \div SleepTicks)

\* a handler is between its load and its response while the background
\* thread is inside a refresh that the timer started
C15_Witness ==
    /\ calls["bg"] >= 2
    /\ InExtract("bg")
    /\ \E r \in Readers : rpc[r] = "loaded" /\ held[r].status = "success"

(* Agreement of the file-backed endpoints, and load_hospital_data *)

\* a step in which the file-backed api_status() sends a new 200 response
FileStatusAnswered ==
    /\ fs_response' # fs_response
    /\ fs_response'.route = "/api/status"
    /\ fs_response'.code = 200

\* C21: on one state of the files, the file-backed GET /api/status reports
\* dataAvailable = true exactly when GET /api/hospitals answers 200, and
\* status "ok" exactly when dataAvailable is true.
C21_EndpointsAgree ==
    [][FileStatusAnswered =>
        LET data == load_hospital_data(data_file, backup_file)
            body == fs_response'.body
        IN  /\ body.dataAvailable <=> FileApiHospitalsResponse(data).code = 200
            /\ body.status = JsonString("ok") <=> body.dataAvailable]_vars

\* a file that exists and holds a JSON document
Parses(f) == f # Absent /\ f.text # NotJson

\* C22: load_hospital_data returns the data file's content when the data
\* file exists and parses, otherwise the backup file's content when the
\* backup file exists and parses, and None only when neither file parses
\* (or the file it read holds null).
C22_LoadFallsBack ==
    LET data == load_hospital_data(data_file, backup_file)
    IN  /\ Parses(data_file) => data = JsonLoads(data_file.text)
        /\ (~Parses(data_file) /\ Parses(backup_file)) =>
              data = JsonLoads(backup_file.text)
        /\ (~Parses(data_file) /\ ~Parses(backup_file)) => data = PyNone

(* Frame of the in-memory request handlers *)

\* a step of an /api/hospitals handler
ReaderActs == \E r \in Readers : rpc'[r] # rpc[r]

\* C23: no step of api_hospitals() or api_status() of the in-memory server
\* changes the snapshot slot; every step that changes the slot is the
\* assignment of an execution of extract_simple_data that logs success.
C23_ReadsArePure ==
    /\ [](~ENABLED (ApiStatus /\ hospital_data' # hospital_data))
    /\ [][ReaderActs => hospital_data' = hospital_data]_vars
    /\ [][hospital_data' # hospital_data =>
            \E t \in Threads :
                /\ pc[t] = "line86"
                /\ SuccessStep(t)
                /\ hospital_data' = mock_data[t]]_vars

\* a handler has answered with the snapshot the slot still holds, after the
\* background thread's timer refresh replaced the one installed at startup
C23_Witness ==
    /\ calls["bg"] >= 2
    /\ Succeeded("bg")
    /\ \E r \in Readers :
          /\ rpc[r] = "done"
          /\ response[r].code = 200
          /\ response[r].body = Jsonify(hospital_data)

(* The page's polling state machine *)

\* call f of fetchData reaches its end in this step
Completes(f) == fetches[f].stage # "done" /\ fetches'[f].stage = "done"

\* call f reaches its end through the try block: its response parsed
CompletesSuccessfully(f) ==
    /\ Completes(f)
    /\ fetches[f].stage = "parsing"
    /\ fetches[f].response.body # NotJson

\* C24: loading is true exactly until the first call of fetchData completes
\* and is never true again; the view changes only when a call completes;
\* a call that completes successfully leaves the hospital cards shown with
\* its result, and a call that completes by failing leaves "Data
\* Unavailable" shown and the data held before untouched.
C24_PagePolling ==
    /\ [](page.loading <=> \A f \in Fetches : fetches[f].stage # "done")
    /\ [][~page.loading => ~page'.loading]_vars
    /\ [][View(page') # View(page) => \E f \in Fetches : Completes(f)]_vars
    /\ [][\A f \in Fetches :
            Completes(f) =>
                IF CompletesSuccessfully(f)
                THEN /\ View(page') = "cards"
                     /\ page'.data = ResponseJson(fetches[f].response.body)
                ELSE /\ View(page') = "unavailable"
                     /\ page'.data = page.data]_vars

\* "Data Unavailable" is shown after a failed fetch while the data of an
\* earlier successful fetch is still held
C24_Witness ==
    /\ ~page.loading
    /\ JsTruthy(page.data)
    /\ JsTruthy(page.error)
    /\ View(page) = "unavailable"
    /\ \E f \in Fetches : fetches[f].stage = "fetching"

=============================================================================
